---------------------------- MODULE Spec2Model ----------------------------
(***************************************************************************)
(* Model of the two-hop weather pipeline: service-a (edge, postCepHandler) *)
(* and service-b (backend, getWeatherHandler, getLocation, getTemperature, *)
(* toFixed), plus the main() bootstrap / shutdown of both processes.       *)
(*                                                                         *)
(* Strings are sequences of characters.  A character is a TLA+ string      *)
(* token: "1" (a digit), "a" (a letter), "&", "#", "+", "%", "=", "?",     *)
(* "e2" (a non-ASCII character encoded on 2 bytes), "LF" (an ASCII control *)
(* character), and, produced only by query unescaping, "SP" (space),       *)
(* "CTL" (a control byte) and "HI" (a byte >= 0x80).                       *)
(* Temperatures are fixed-point integers; the unit is stated at each use.  *)
(***************************************************************************)
EXTENDS Integers, Sequences, FiniteSets, TLC

VARIABLES
    entry,          \* "edge": the caller POSTs to service-a; "backend": the caller GETs service-b directly
    inBody,         \* body of the inbound POST to the edge
    inHeader,       \* traceparent header supplied by the external caller
    pcE,            \* position of postCepHandler
    edgeRecv,       \* backend response received by http.DefaultClient.Do
    edgeResp,       \* response written by the edge
    edgeSent,       \* number of requests the edge handed to http.DefaultClient.Do
    backendReq,     \* request as received by service-b
    pcB,            \* position of getWeatherHandler
    backendResp,    \* response written by the backend
    bCep,           \* r.URL.Query().Get("cep") in the backend
    location,       \* result of getLocation
    geoOutcome,     \* what the geocoding provider answered
    weatherOutcome, \* what the weather provider answered
    geoInvoked,     \* number of calls of getLocation
    tempInvoked,    \* number of calls of getTemperature
    geoCalls,       \* number of requests sent to the geocoding provider
    weatherCalls,   \* number of requests sent to the weather provider
    inflight,       \* outbound HTTP calls awaiting their response
    spans,          \* spans started by tracer.Start, per component
    mpc,            \* main(): position of each process
    cancelled,      \* main(): the signal.NotifyContext context is cancelled
    serving,        \* main(): which http servers of the process accept requests
    active,         \* main(): requests being handled by each process
    elapsed         \* main(): seconds spent in srv.Shutdown

pipeVars == <<entry, inBody, inHeader, pcE, edgeRecv, edgeResp, edgeSent, backendReq, pcB,
              backendResp, bCep, location, geoOutcome, weatherOutcome,
              geoInvoked, tempInvoked, geoCalls, weatherCalls, inflight, spans>>

mainVars == <<mpc, cancelled, serving, active, elapsed>>

vars == <<pipeVars, mainVars>>

---------------------------------------------------------------------------
(* Bounds of the model.                                                    *)

\* cep inputs have 0 or CEP_LENGTH - LenSlack .. CEP_LENGTH + LenSlack characters
LenSlack == 2

\* provider readings range over -MaxMilli .. MaxMilli thousandths of a degree
MaxMilli == 30

\* at most MaxActive requests are handled at once by a process
MaxActive == 2

\* srv.Shutdown is observed every GraceStep seconds
GraceStep == 10

---------------------------------------------------------------------------
(* Program constants.                                                      *)

CEP_LENGTH == 8

BackendCepLength == 8

ShutdownGrace == 30

getTempEndpoint == <<"/">>

---------------------------------------------------------------------------
(* Strings.                                                                *)

Digit == "1"

Specials == {"a", "&", "#", "+", "%", "=", "?", "e2", "LF"}

\* bytes a character takes in a Go string (UTF-8)
Width(ch) == IF ch = "e2" THEN 2 ELSE 1

RECURSIVE ByteLen(_)
\* Go's len(s) of a string: its number of bytes
ByteLen(s) == IF s = <<>> THEN 0 ELSE Width(Head(s)) + ByteLen(Tail(s))

\* number of characters of a string
CharLen(s) == Len(s)

IsCTL(ch) == ch \in {"LF", "CTL"}

IsHex(ch) == ch \in {"1", "a"}

stringContainsCTLByte(s) == \E i \in 1..Len(s) : IsCTL(s[i])

IndexOf(s, ch) ==
    IF \E i \in 1..Len(s) : s[i] = ch
    THEN CHOOSE i \in 1..Len(s) : s[i] = ch /\ \A j \in 1..(i-1) : s[j] # ch
    ELSE 0

\* strings.Cut(s, ch): the text before and after the first ch
CutBefore(s, ch) == IF IndexOf(s, ch) = 0 THEN s ELSE SubSeq(s, 1, IndexOf(s, ch) - 1)

CutAfter(s, ch) == IF IndexOf(s, ch) = 0 THEN <<>> ELSE SubSeq(s, IndexOf(s, ch) + 1, Len(s))

Fill(n) == [i \in 1..n |-> Digit]

WithSpecial(n, p, ch) == [i \in 1..n |-> IF i = p THEN ch ELSE Digit]

Lens == {0} \cup ((CEP_LENGTH - LenSlack)..(CEP_LENGTH + LenSlack))

CepInputs ==
    {Fill(n) : n \in Lens}
    \cup {WithSpecial(n, p, ch) : n \in Lens \ {0}, p \in 1..(CEP_LENGTH + LenSlack), ch \in Specials}

---------------------------------------------------------------------------
(* net/url as the handlers use it.                                         *)

\* the byte a %XX escape decodes to
PctByte(h1, h2) == IF h1 = "1" THEN "CTL" ELSE "HI"

RECURSIVE QueryUnescape(_)
\* url.QueryUnescape: '+' is a space, %XX is a byte, any other '%' is an error
QueryUnescape(s) ==
    IF s = <<>> THEN [err |-> FALSE, val |-> <<>>]
    ELSE IF Head(s) = "%"
    THEN IF Len(s) >= 3 /\ IsHex(s[2]) /\ IsHex(s[3])
         THEN LET rest == QueryUnescape(SubSeq(s, 4, Len(s)))
              IN  [err |-> rest.err, val |-> <<PctByte(s[2], s[3])>> \o rest.val]
         ELSE [err |-> TRUE, val |-> <<>>]
    ELSE LET rest == QueryUnescape(Tail(s))
         IN  [err |-> rest.err,
              val |-> <<IF Head(s) = "+" THEN "SP" ELSE Head(s)>> \o rest.val]

RECURSIVE QueryGet(_, _)
\* r.URL.Query().Get(key): the first value of key among the '&'-separated
\* pairs; pairs that do not unescape are dropped; "" when there is none
QueryGet(query, key) ==
    IF query = <<>> THEN <<>>
    ELSE LET pair == CutBefore(query, "&")
             rest == CutAfter(query, "&")
             k    == QueryUnescape(CutBefore(pair, "="))
             v    == QueryUnescape(CutAfter(pair, "="))
         IN  IF ~k.err /\ ~v.err /\ k.val = key THEN v.val ELSE QueryGet(rest, key)

\* url.Parse of scheme://host followed by rest: the fragment is cut at the
\* first '#', control characters are refused, the query is cut at the first '?',
\* the path must unescape
UrlParse(rest) ==
    LET u    == CutBefore(rest, "#")
        path == CutBefore(u, "?")
    IN  [err      |-> stringContainsCTLByte(u) \/ QueryUnescape(path).err,
         Path     |-> path,
         RawQuery |-> CutAfter(u, "?")]

CepKey == <<"c", "e", "p">>

\* fmt.Sprintf("%s?cep=%s", getTempEndpoint, c.Cep), after the host
weatherUrl(cep) == getTempEndpoint \o <<"?">> \o CepKey \o <<"=">> \o cep

\* fmt.Sprintf("http://viacep.com.br/ws/%s/json/", cep), after the host
viacepUrl(cep) == <<"/", "w", "s", "/">> \o cep \o <<"/", "j", "s", "o", "n", "/">>

---------------------------------------------------------------------------
(* OpenTelemetry: propagation.TraceContext and tracer.Start.               *)

Comps == {"edge", "backend", "geo", "temp"}

NoHeader == [kind |-> "none", trace |-> "none", span |-> "none"]

MalformedHeader == [kind |-> "malformed", trace |-> "none", span |-> "none"]

CallerHeader == [kind |-> "valid", trace |-> "T-caller", span |-> "S-caller"]

NoCtx == [kind |-> "none", trace |-> "none", span |-> "none"]

NoSpan == [opened |-> 0, closed |-> 0, trace |-> "none", id |-> "none", parent |-> "none"]

\* otel.GetTextMapPropagator().Extract(ctx, carrier) on a request context that
\* holds no span: the remote span context when the traceparent header parses
Extract(header) == IF header.kind = "valid" THEN header ELSE NoCtx

InjectNothing(ctx) == NoHeader

\* otel.GetTextMapPropagator().Inject(ctx, carrier): the traceparent header
\* written from the span context held by ctx
Inject(ctx) == IF ctx.kind = "valid" THEN ctx ELSE NoHeader

\* tracer.Start(ctx, name): a child of the span context ctx holds, else the
\* root of a new trace
Start(comp, ctx) ==
    [opened |-> 1, closed |-> 0,
     trace  |-> IF ctx.kind = "valid" THEN ctx.trace ELSE "T-" \o comp,
     id     |-> "S-" \o comp,
     parent |-> IF ctx.kind = "valid" THEN ctx.span ELSE "none"]

\* the context tracer.Start returns: it holds the new span
CtxOf(sp) == [kind |-> "valid", trace |-> sp.trace, span |-> sp.id]

EndLeaked(sp) == sp

\* span.End(), deferred right after tracer.Start
End(sp) == [sp EXCEPT !.closed = @ + 1]

---------------------------------------------------------------------------
(* Responses and JSON bodies.                                              *)

ZeroReport == [Localidade |-> "", TempC |-> 0, TempF |-> 0, TempK |-> 0]

ZeroJson == [city |-> "", temp_C |-> 0, temp_F |-> 0, temp_K |-> 0]

NoResp == [status |-> 0, kind |-> "none", text |-> "", json |-> ZeroJson]

\* http.Error(w, msg, code)
HttpError(msg, code) == [status |-> code, kind |-> "text", text |-> msg, json |-> ZeroJson]

\* json.NewEncoder(w).Encode(response) of a WeatherResponse / TemperatureResponse,
\* by the structs' json tags
EncodeReport(r) ==
    [city |-> r.Localidade, temp_C |-> r.TempC, temp_F |-> r.TempF, temp_K |-> r.TempK]

\* json.NewDecoder(resp.Body).Decode(&response) into a TemperatureResponse; the
\* error is dropped, a body that is not JSON leaves the zero value
DecodeReport(resp) ==
    IF resp.kind = "json"
    THEN [Localidade |-> resp.json.city, TempC |-> resp.json.temp_C,
          TempF |-> resp.json.temp_F, TempK |-> resp.json.temp_K]
    ELSE ZeroReport

\* bodies of the inbound POST
Bodies ==
    {[kind |-> k, cep |-> <<>>] : k \in {"empty", "notjson", "cepnotstring", "nofield"}}
    \cup {[kind |-> "json", cep |-> c] : c \in CepInputs}

\* json.NewDecoder(r.Body).Decode(&c) into a Cep
DecodeCep(body) ==
    [err |-> body.kind \in {"empty", "notjson", "cepnotstring"},
     Cep |-> IF body.kind = "json" THEN body.cep ELSE <<>>]

EdgeValidAnyLength(body) == ~DecodeCep(body).err

\* err != nil || len(c.Cep) != CEP_LENGTH, negated
EdgeValid(body) == ~DecodeCep(body).err /\ ByteLen(DecodeCep(body).Cep) = CEP_LENGTH

EdgeRelayNo404(resp) ==
    [status |-> resp.status, kind |-> "json", text |-> "", json |-> EncodeReport(DecodeReport(resp))]

\* what the edge writes once the backend has answered: the backend's status,
\* then "can not find zipcode" on a 404 and the re-encoded report otherwise
EdgeRelay(resp) ==
    IF resp.status = 404
    THEN HttpError("can not find zipcode", resp.status)
    ELSE [status |-> resp.status, kind |-> "json", text |-> "",
          json |-> EncodeReport(DecodeReport(resp))]

---------------------------------------------------------------------------
(* Providers and resolvers.                                                *)

NoOutcome == [net |-> "none", status |-> 0, payload |-> "none", temp |-> 0]

City == "Sao Paulo"

GeoOutcomes ==
    {[net |-> "err", status |-> 0, payload |-> "none", temp |-> 0]}
    \cup {[net |-> "ok", status |-> s, payload |-> p, temp |-> 0] :
            s \in {200, 400, 500},
            p \in {"unreadable", "notjson", "nolocalidade", "localidadenotstring", "localidade"}}

Readings == (-MaxMilli)..MaxMilli

WeatherOutcomes ==
    {[net |-> "err", status |-> 0, payload |-> "none", temp |-> 0]}
    \cup {[net |-> "ok", status |-> s, payload |-> p, temp |-> 0] :
            s \in {200, 400, 503},
            p \in {"unreadable", "notjson", "nocurrent", "notemp", "tempnotnumber"}}
    \cup {[net |-> "ok", status |-> s, payload |-> "number", temp |-> 0] : s \in {400, 503}}
    \cup {[net |-> "ok", status |-> 200, payload |-> "number", temp |-> c] : c \in Readings}

getLocationTrusting(o) ==
    [err |-> o.net # "ok" \/ o.status # 200, localidade |-> City]

\* getLocation after httpClient.Do: status check, io.ReadAll, json.Unmarshal,
\* result["localidade"].(string)
getLocation(o) ==
    [err        |-> o.net # "ok" \/ o.status # 200 \/ o.payload # "localidade",
     localidade |-> IF o.net = "ok" /\ o.status = 200 /\ o.payload = "localidade"
                    THEN City ELSE ""]

getTemperatureDefaulting(o) == [err |-> o.net # "ok" \/ o.status # 200, tempC |-> o.temp]

\* getTemperature after httpClient.Do: status check, io.ReadAll, json.Unmarshal,
\* result["current"]["temp_c"].(float64); tempC in thousandths of a degree
getTemperature(o) ==
    [err   |-> o.net # "ok" \/ o.status # 200 \/ o.payload # "number",
     tempC |-> IF o.net = "ok" /\ o.status = 200 /\ o.payload = "number" THEN o.temp ELSE 0]

---------------------------------------------------------------------------
(* Temperature conversion.                                                 *)

\* math.Round(a / b) for b > 0: nearest integer, halves away from zero
Round(a, b) ==
    IF a >= 0 THEN (2 * a + b) \div (2 * b) ELSE -((2 * (-a) + b) \div (2 * b))

Pow10(n) == IF n = 0 THEN 1 ELSE IF n = 1 THEN 10 ELSE IF n = 2 THEN 100 ELSE 1000

toFixedTruncating(num, scale, precision) ==
    IF num >= 0 THEN (num * Pow10(precision)) \div scale
    ELSE -(((-num) * Pow10(precision)) \div scale)

\* toFixed(num, precision) of the number num / scale: math.Round(num * 10^precision),
\* the result counted in units of 10^-precision
toFixed(num, scale, precision) == Round(num * Pow10(precision), scale)

\* the WeatherResponse built from location and tempC (thousandths of a degree);
\* tempF := tempC*1.8 + 32 (in 1/10000), tempK := tempC + 273.15 (in 1/1000);
\* the three fields are in hundredths
WeatherResponse(loc, tempC) ==
    LET tempF == tempC * 18 + 320000
        tempK == tempC + 273150
    IN  [Localidade |-> loc,
         TempC      |-> toFixed(tempC, 1000, 2),
         TempF      |-> toFixed(tempF, 10000, 2),
         TempK      |-> toFixed(tempK, 1000, 2)]

---------------------------------------------------------------------------
(* One request through postCepHandler and getWeatherHandler.               *)

Procs == {"a", "b"}

NoReq == [RawQuery |-> <<>>, header |-> NoHeader]

Headers == {NoHeader, MalformedHeader, CallerHeader}

\* queries a caller can put on the request line of a direct GET to service-b
DirectQueries ==
    {<<>>} \cup {CepKey \o <<"=">> \o c :
                    c \in {x \in CepInputs : \A i \in 1..Len(x) : x[i] \notin {"#", "LF"}}}

MainIdle ==
    /\ mpc = [p \in Procs |-> "initTracer"]
    /\ cancelled = [p \in Procs |-> FALSE]
    /\ serving = [p \in Procs |-> {}]
    /\ active = [p \in Procs |-> 0]
    /\ elapsed = [p \in Procs |-> 0]

PipeIdle ==
    /\ edgeRecv = NoResp
    /\ edgeResp = NoResp
    /\ edgeSent = 0
    /\ backendResp = NoResp
    /\ bCep = <<>>
    /\ location = ""
    /\ geoOutcome = NoOutcome
    /\ weatherOutcome = NoOutcome
    /\ geoInvoked = 0
    /\ tempInvoked = 0
    /\ geoCalls = 0
    /\ weatherCalls = 0
    /\ inflight = {}
    /\ spans = [c \in Comps |-> NoSpan]

Init ==
    /\ PipeIdle
    /\ MainIdle
    /\ inHeader \in Headers
    /\ entry \in {"edge", "backend"}
    /\ IF entry = "edge"
       THEN /\ inBody \in Bodies
            /\ backendReq = NoReq
            /\ pcE = "start"
            /\ pcB = "idle"
       ELSE /\ inBody = [kind |-> "empty", cep |-> <<>>]
            /\ backendReq \in {[RawQuery |-> q, header |-> inHeader] : q \in DirectQueries}
            /\ pcE = "idle"
            /\ pcB = "recv"

\* the span postCepHandler starts, and the context it then holds
EdgeSpan == Start("edge", Extract(inHeader))

\* postCepHandler: decode or length check fails
EdgeRejects ==
    /\ pcE = "start"
    /\ ~EdgeValid(inBody)
    /\ spans' = [spans EXCEPT !["edge"] = End(EdgeSpan)]
    /\ edgeResp' = HttpError("invalid zipcode", 422)
    /\ pcE' = "done"
    /\ UNCHANGED <<entry, inBody, inHeader, edgeRecv, edgeSent, backendReq, pcB, backendResp, bCep,
                   location, geoOutcome, weatherOutcome, geoInvoked, tempInvoked,
                   geoCalls, weatherCalls, inflight, mainVars>>

\* postCepHandler: http.NewRequestWithContext refuses the URL
EdgeNewRequestFails ==
    /\ pcE = "start"
    /\ EdgeValid(inBody)
    /\ UrlParse(weatherUrl(DecodeCep(inBody).Cep)).err
    /\ spans' = [spans EXCEPT !["edge"] = End(EdgeSpan)]
    /\ edgeResp' = HttpError("NewRequestWithContext service b error", 500)
    /\ pcE' = "done"
    /\ UNCHANGED <<entry, inBody, inHeader, edgeRecv, edgeSent, backendReq, pcB, backendResp, bCep,
                   location, geoOutcome, weatherOutcome, geoInvoked, tempInvoked,
                   geoCalls, weatherCalls, inflight, mainVars>>

\* postCepHandler: the request is built, the trace context injected, and
\* http.DefaultClient.Do called
EdgeForwards ==
    /\ pcE = "start"
    /\ EdgeValid(inBody)
    /\ ~UrlParse(weatherUrl(DecodeCep(inBody).Cep)).err
    /\ spans' = [spans EXCEPT !["edge"] = EdgeSpan]
    /\ backendReq' = [RawQuery |-> UrlParse(weatherUrl(DecodeCep(inBody).Cep)).RawQuery,
                      header   |-> Inject(CtxOf(EdgeSpan))]
    /\ edgeSent' = edgeSent + 1
    /\ inflight' = inflight \cup {"backend"}
    /\ pcE' = "await"
    /\ pcB' = "recv"
    /\ UNCHANGED <<entry, inBody, inHeader, edgeRecv, edgeResp, backendResp, bCep,
                   location, geoOutcome, weatherOutcome, geoInvoked, tempInvoked,
                   geoCalls, weatherCalls, mainVars>>

\* postCepHandler: http.DefaultClient.Do returns a transport error, whether
\* the request never reached getWeatherHandler or its response was lost
EdgeDoFails ==
    /\ pcE = "await"
    /\ spans' = [spans EXCEPT !["edge"] = End(@)]
    /\ edgeResp' = HttpError("DefaultClient.Do service b error", 500)
    /\ inflight' = inflight \ {"backend"}
    /\ pcE' = "done"
    /\ \E delivered \in BOOLEAN :
        pcB' = IF pcB = "recv" /\ ~delivered THEN "idle" ELSE pcB
    /\ UNCHANGED <<entry, inBody, inHeader, edgeRecv, edgeSent, backendReq, backendResp, bCep,
                   location, geoOutcome, weatherOutcome, geoInvoked, tempInvoked,
                   geoCalls, weatherCalls, mainVars>>

\* postCepHandler: the backend has answered
EdgeRelays ==
    /\ pcE = "await"
    /\ pcB = "done"
    /\ spans' = [spans EXCEPT !["edge"] = End(@)]
    /\ edgeRecv' = backendResp
    /\ edgeResp' = EdgeRelay(backendResp)
    /\ inflight' = inflight \ {"backend"}
    /\ pcE' = "done"
    /\ UNCHANGED <<entry, inBody, inHeader, edgeSent, backendReq, pcB, backendResp, bCep,
                   location, geoOutcome, weatherOutcome, geoInvoked, tempInvoked,
                   geoCalls, weatherCalls, mainVars>>

\* the span getWeatherHandler starts
BackendSpan == Start("backend", Extract(backendReq.header))

\* r.URL.Query().Get("cep")
QueryCep == QueryGet(backendReq.RawQuery, CepKey)

\* len(cep) != 8, negated
BackendValid(cep) == ByteLen(cep) = BackendCepLength

\* the ctx getWeatherHandler passes to getLocation
GeoParent(sp) == CtxOf(sp)

\* the ctx getWeatherHandler passes to getTemperature
TempParent(sp) == CtxOf(sp)

\* getWeatherHandler: the cep has not 8 bytes
BackendRejects ==
    /\ pcB = "recv"
    /\ ~BackendValid(QueryCep)
    /\ bCep' = QueryCep
    /\ spans' = [spans EXCEPT !["backend"] = End(BackendSpan)]
    /\ backendResp' = HttpError("invalid zipcode", 422)
    /\ pcB' = "done"
    /\ UNCHANGED <<entry, inBody, inHeader, edgeRecv, pcE, edgeResp, edgeSent, backendReq,
                   location, geoOutcome, weatherOutcome, geoInvoked, tempInvoked,
                   geoCalls, weatherCalls, inflight, mainVars>>

\* getWeatherHandler calls getLocation, whose http.NewRequestWithContext
\* refuses the URL
BackendGeoRequestFails ==
    /\ pcB = "recv"
    /\ BackendValid(QueryCep)
    /\ UrlParse(viacepUrl(QueryCep)).err
    /\ bCep' = QueryCep
    /\ geoInvoked' = geoInvoked + 1
    /\ spans' = [spans EXCEPT !["backend"] = End(BackendSpan),
                              !["geo"] = End(Start("geo", GeoParent(BackendSpan)))]
    /\ backendResp' = HttpError("can not find zipcode", 404)
    /\ pcB' = "done"
    /\ UNCHANGED <<entry, inBody, inHeader, edgeRecv, pcE, edgeResp, edgeSent, backendReq,
                   location, geoOutcome, weatherOutcome, tempInvoked,
                   geoCalls, weatherCalls, inflight, mainVars>>

\* getWeatherHandler calls getLocation, which sends its request to the
\* geocoding provider
BackendCallsGeo ==
    /\ pcB = "recv"
    /\ BackendValid(QueryCep)
    /\ ~UrlParse(viacepUrl(QueryCep)).err
    /\ bCep' = QueryCep
    /\ geoInvoked' = geoInvoked + 1
    /\ geoCalls' = geoCalls + 1
    /\ inflight' = inflight \cup {"geo"}
    /\ spans' = [spans EXCEPT !["backend"] = BackendSpan,
                              !["geo"] = Start("geo", GeoParent(BackendSpan))]
    /\ pcB' = "geo"
    /\ UNCHANGED <<entry, inBody, inHeader, edgeRecv, pcE, edgeResp, edgeSent, backendReq, backendResp,
                   location, geoOutcome, weatherOutcome, tempInvoked,
                   weatherCalls, mainVars>>

\* getLocation returns an error: getWeatherHandler answers 404
GeoFails ==
    /\ pcB = "geo"
    /\ \E o \in GeoOutcomes :
        /\ getLocation(o).err
        /\ geoOutcome' = o
    /\ inflight' = inflight \ {"geo"}
    /\ spans' = [spans EXCEPT !["geo"] = End(@), !["backend"] = End(@)]
    /\ backendResp' = HttpError("can not find zipcode", 404)
    /\ pcB' = "done"
    /\ UNCHANGED <<entry, inBody, inHeader, edgeRecv, pcE, edgeResp, edgeSent, backendReq, bCep,
                   location, weatherOutcome, geoInvoked, tempInvoked,
                   geoCalls, weatherCalls, mainVars>>

\* getLocation returns the locality; getTemperature is called and its
\* http.NewRequestWithContext refuses the URL (WEATHER_API_KEY is put in it
\* unescaped)
GeoOkTempRequestFails ==
    /\ pcB = "geo"
    /\ \E o \in GeoOutcomes :
        /\ ~getLocation(o).err
        /\ geoOutcome' = o
        /\ location' = getLocation(o).localidade
    /\ inflight' = inflight \ {"geo"}
    /\ tempInvoked' = tempInvoked + 1
    /\ spans' = [spans EXCEPT !["geo"] = End(@),
                              !["temp"] = End(Start("temp", TempParent(spans["backend"]))),
                              !["backend"] = End(@)]
    /\ backendResp' = HttpError("error fetching temperature", 500)
    /\ pcB' = "done"
    /\ UNCHANGED <<entry, inBody, inHeader, edgeRecv, pcE, edgeResp, edgeSent, backendReq, bCep,
                   weatherOutcome, geoInvoked, geoCalls, weatherCalls, mainVars>>

\* getLocation returns the locality; getTemperature is called and sends its
\* request to the weather provider
GeoOkCallsWeather ==
    /\ pcB = "geo"
    /\ \E o \in GeoOutcomes :
        /\ ~getLocation(o).err
        /\ geoOutcome' = o
        /\ location' = getLocation(o).localidade
    /\ inflight' = (inflight \ {"geo"}) \cup {"weather"}
    /\ tempInvoked' = tempInvoked + 1
    /\ weatherCalls' = weatherCalls + 1
    /\ spans' = [spans EXCEPT !["geo"] = End(@),
                              !["temp"] = Start("temp", TempParent(spans["backend"]))]
    /\ pcB' = "weather"
    /\ UNCHANGED <<entry, inBody, inHeader, edgeRecv, pcE, edgeResp, edgeSent, backendReq, backendResp,
                   bCep, weatherOutcome, geoInvoked, geoCalls, mainVars>>

\* getTemperature returns an error: getWeatherHandler answers 500
WeatherFails ==
    /\ pcB = "weather"
    /\ \E o \in WeatherOutcomes :
        /\ getTemperature(o).err
        /\ weatherOutcome' = o
    /\ inflight' = inflight \ {"weather"}
    /\ spans' = [spans EXCEPT !["temp"] = End(@), !["backend"] = End(@)]
    /\ backendResp' = HttpError("error fetching temperature", 500)
    /\ pcB' = "done"
    /\ UNCHANGED <<entry, inBody, inHeader, edgeRecv, pcE, edgeResp, edgeSent, backendReq, bCep,
                   location, geoOutcome, geoInvoked, tempInvoked,
                   geoCalls, weatherCalls, mainVars>>

\* getTemperature returns the reading: getWeatherHandler encodes the report
\* (status 200, WriteHeader is not called)
WeatherSucceeds ==
    /\ pcB = "weather"
    /\ \E o \in WeatherOutcomes :
        /\ ~getTemperature(o).err
        /\ weatherOutcome' = o
        /\ backendResp' = [status |-> 200, kind |-> "json", text |-> "",
                           json |-> EncodeReport(WeatherResponse(location, getTemperature(o).tempC))]
    /\ inflight' = inflight \ {"weather"}
    /\ spans' = [spans EXCEPT !["temp"] = End(@), !["backend"] = End(@)]
    /\ pcB' = "done"
    /\ UNCHANGED <<entry, inBody, inHeader, edgeRecv, pcE, edgeResp, edgeSent, backendReq, bCep,
                   location, geoOutcome, geoInvoked, tempInvoked,
                   geoCalls, weatherCalls, mainVars>>

Next ==
    \/ EdgeRejects
    \/ EdgeNewRequestFails
    \/ EdgeForwards
    \/ EdgeDoFails
    \/ EdgeRelays
    \/ BackendRejects
    \/ BackendGeoRequestFails
    \/ BackendCallsGeo
    \/ GeoFails
    \/ GeoOkTempRequestFails
    \/ GeoOkCallsWeather
    \/ WeatherFails
    \/ WeatherSucceeds

Spec == Init /\ [][Next]_vars

---------------------------------------------------------------------------
(* main() of service-a and service-b: bootstrap, SIGINT, shutdown.         *)
(* mpc: "initTracer", "ListenAndServe" (main blocked in the package-level  *)
(* http.ListenAndServe), "awaitDone" (main blocked in <-ctx.Done(), srv    *)
(* started in a goroutine), "Shutdown" (main in srv.Shutdown), "exited".   *)
(* serving holds "default" for the package-level server and "srv" for the  *)
(* http.Server built in main.                                              *)

Min(a, b) == IF a <= b THEN a ELSE b

\* where main goes once initTracer has returned: service-a calls the blocking
\* http.ListenAndServe first, service-b starts srv in a goroutine and waits
AfterInitTracer(p) == IF p = "a" THEN "ListenAndServe" ELSE "awaitDone"

InitMain ==
    /\ PipeIdle
    /\ MainIdle
    /\ entry = "edge"
    /\ inHeader = NoHeader
    /\ inBody = [kind |-> "empty", cep |-> <<>>]
    /\ backendReq = NoReq
    /\ pcE = "idle"
    /\ pcB = "idle"

Exit(p) ==
    /\ mpc' = [mpc EXCEPT ![p] = "exited"]
    /\ serving' = [serving EXCEPT ![p] = {}]
    /\ active' = [active EXCEPT ![p] = 0]

\* os.Interrupt is delivered; signal.NotifyContext cancels ctx
Sigint(p) ==
    /\ mpc[p] # "exited"
    /\ ~cancelled[p]
    /\ cancelled' = [cancelled EXCEPT ![p] = TRUE]
    /\ UNCHANGED <<mpc, serving, active, elapsed, pipeVars>>

\* initTracer returns the provider
InitTracerOk(p) ==
    /\ mpc[p] = "initTracer"
    /\ mpc' = [mpc EXCEPT ![p] = AfterInitTracer(p)]
    /\ UNCHANGED <<cancelled, serving, active, elapsed, pipeVars>>

\* initTracer returns an error: panic(err)
InitTracerFails(p) ==
    /\ mpc[p] = "initTracer"
    /\ Exit(p)
    /\ UNCHANGED <<cancelled, elapsed, pipeVars>>

\* http.ListenAndServe(":8080", mux) binds the port and serves; it does not
\* return while the listener works
DefaultServerListens(p) ==
    /\ mpc[p] = "ListenAndServe"
    /\ "default" \notin serving[p]
    /\ serving' = [serving EXCEPT ![p] = @ \cup {"default"}]
    /\ UNCHANGED <<mpc, cancelled, active, elapsed, pipeVars>>

\* http.ListenAndServe(":8080", mux) cannot bind and returns its error, which
\* main drops; main starts srv in a goroutine and waits for ctx.Done()
DefaultServerFails(p) ==
    /\ mpc[p] = "ListenAndServe"
    /\ "default" \notin serving[p]
    /\ mpc' = [mpc EXCEPT ![p] = "awaitDone"]
    /\ UNCHANGED <<cancelled, serving, active, elapsed, pipeVars>>

\* the goroutine's srv.ListenAndServe binds the port and serves
SrvListens(p) ==
    /\ mpc[p] = "awaitDone"
    /\ "srv" \notin serving[p]
    /\ serving' = [serving EXCEPT ![p] = @ \cup {"srv"}]
    /\ UNCHANGED <<mpc, cancelled, active, elapsed, pipeVars>>

\* the goroutine's srv.ListenAndServe fails: log.Fatalf
SrvListenFails(p) ==
    /\ mpc[p] = "awaitDone"
    /\ "srv" \notin serving[p]
    /\ Exit(p)
    /\ UNCHANGED <<cancelled, elapsed, pipeVars>>

\* a request is accepted by a listening server of the process
Accept(p) ==
    /\ serving[p] # {}
    /\ active[p] < MaxActive
    /\ active' = [active EXCEPT ![p] = @ + 1]
    /\ UNCHANGED <<mpc, cancelled, serving, elapsed, pipeVars>>

\* a handler returns
Finish(p) ==
    /\ mpc[p] # "exited"
    /\ active[p] > 0
    /\ active' = [active EXCEPT ![p] = @ - 1]
    /\ UNCHANGED <<mpc, cancelled, serving, elapsed, pipeVars>>

\* <-ctx.Done() returns; srv.Shutdown(shutdownCtx) closes the listener
StartShutdown(p) ==
    /\ mpc[p] = "awaitDone"
    /\ cancelled[p]
    /\ mpc' = [mpc EXCEPT ![p] = "Shutdown"]
    /\ serving' = [serving EXCEPT ![p] = @ \ {"srv"}]
    /\ elapsed' = [elapsed EXCEPT ![p] = 0]
    /\ UNCHANGED <<cancelled, active, pipeVars>>

\* time passes while srv.Shutdown waits for the handlers
Tick(p) ==
    /\ mpc[p] = "Shutdown"
    /\ active[p] > 0
    /\ elapsed[p] < ShutdownGrace
    /\ elapsed' = [elapsed EXCEPT ![p] = Min(@ + GraceStep, ShutdownGrace)]
    /\ UNCHANGED <<mpc, cancelled, serving, active, pipeVars>>

\* srv.Shutdown returns nil: no handler is left; main returns
ShutdownDrained(p) ==
    /\ mpc[p] = "Shutdown"
    /\ active[p] = 0
    /\ Exit(p)
    /\ UNCHANGED <<cancelled, elapsed, pipeVars>>

\* shutdownCtx expires after 30 s: srv.Shutdown returns its error, log.Fatalf
ShutdownTimesOut(p) ==
    /\ mpc[p] = "Shutdown"
    /\ active[p] > 0
    /\ elapsed[p] >= ShutdownGrace
    /\ Exit(p)
    /\ UNCHANGED <<cancelled, elapsed, pipeVars>>

NextMain ==
    \/ \E p \in Procs : Sigint(p)
    \/ \E p \in Procs : InitTracerOk(p)
    \/ \E p \in Procs : InitTracerFails(p)
    \/ \E p \in Procs : DefaultServerListens(p)
    \/ \E p \in Procs : DefaultServerFails(p)
    \/ \E p \in Procs : SrvListens(p)
    \/ \E p \in Procs : SrvListenFails(p)
    \/ \E p \in Procs : Accept(p)
    \/ \E p \in Procs : Finish(p)
    \/ \E p \in Procs : StartShutdown(p)
    \/ \E p \in Procs : Tick(p)
    \/ \E p \in Procs : ShutdownDrained(p)
    \/ \E p \in Procs : ShutdownTimesOut(p)

SpecMain == InitMain /\ [][NextMain]_vars

---------------------------------------------------------------------------
(* Properties.                                                             *)

\* the geocoding provider was asked and getLocation had a locality to return
GeoSucceeded ==
    geoOutcome.net = "ok" /\ geoOutcome.status = 200 /\ geoOutcome.payload = "localidade"

\* the weather provider was asked and answered 200 with a numeric current.temp_c
WeatherSucceeded ==
    weatherOutcome.net = "ok" /\ weatherOutcome.status = 200 /\ weatherOutcome.payload = "number"

Abs(x) == IF x >= 0 THEN x ELSE -x

\* r is the integer nearest to a / b (b > 0), a half going away from zero
NearestHalfAway(r, a, b) ==
    /\ 2 * Abs(r * b - a) <= b
    /\ 2 * Abs(r * b - a) = b => Abs(r * b) > Abs(a)

\* the inbound POST carries no cep of CEP_LENGTH bytes: the body does not decode
\* (empty, not JSON, cep not a string) or the decoded cep (absent: "") has
\* another length
InvalidInput ==
    /\ entry = "edge"
    /\ \/ inBody.kind \in {"empty", "notjson", "cepnotstring", "nofield"}
       \/ ByteLen(inBody.cep) # CEP_LENGTH

C2_ValidCepForwardedUnchanged ==
    (entry = "edge" /\ inBody.kind = "json" /\ CharLen(inBody.cep) = CEP_LENGTH
        /\ ByteLen(inBody.cep) = CEP_LENGTH /\ pcE # "start") =>
        /\ edgeSent = 1
        /\ backendReq.header.kind = "valid"
        /\ pcB \in {"geo", "weather", "done"} =>
            /\ bCep = inBody.cep
            /\ ByteLen(bCep) = BackendCepLength

\* the geocoding provider answered with a non-200 status, or with a 200 payload
\* that holds no locality string
GeoAnsweredNotFound ==
    /\ geoOutcome.net = "ok"
    /\ \/ geoOutcome.status # 200
       \/ geoOutcome.payload \in {"notjson", "nolocalidade", "localidadenotstring"}

\* C3: whenever the geocoding provider answers a valid 8-character cep with a
\* non-200 status or with a 200 payload without a locality string, the backend
\* responds 404 "can not find zipcode", and the edge, on receiving that 404,
\* responds 404 "can not find zipcode" to its caller.
C3_NotFoundMapping ==
    GeoAnsweredNotFound =>
        /\ pcB = "done"
        /\ backendResp.status = 404
        /\ backendResp.kind = "text"
        /\ backendResp.text = "can not find zipcode"
        /\ (entry = "edge" /\ edgeRecv.status = 404) =>
            /\ edgeRecv = backendResp
            /\ pcE = "done"
            /\ edgeResp.status = 404
            /\ edgeResp.kind = "text"
            /\ edgeResp.text = "can not find zipcode"

C3_Witness ==
    /\ GeoAnsweredNotFound
    /\ geoOutcome.status = 200
    /\ geoOutcome.payload = "nolocalidade"
    /\ entry = "edge"
    /\ pcE = "done"
    /\ edgeRecv.status = 404
    /\ edgeResp.status = 404

\* C4: once the geocode lookup has succeeded, any failure of the temperature
\* lookup (request construction, transport error, non-200, unreadable or
\* non-JSON payload, payload without a numeric current.temp_c) makes the
\* backend respond 500 "error fetching temperature", never 200 or a report.
C4_TemperatureFailureIs500 ==
    (GeoSucceeded /\ pcB = "done" /\ ~WeatherSucceeded) =>
        /\ backendResp.status = 500
        /\ backendResp.kind = "text"
        /\ backendResp.text = "error fetching temperature"
        /\ backendResp.json = ZeroJson

C4_Witness ==
    /\ GeoSucceeded
    /\ pcB = "done"
    /\ weatherOutcome.net = "ok"
    /\ weatherOutcome.status = 200
    /\ weatherOutcome.payload = "notemp"
    /\ backendResp.status = 500

\* C5 as claimed: in every 200 response of the backend, temp_F is
\* temp_C x 1.8 + 32 rounded to 2 decimals and temp_K is temp_C + 273.15 rounded
\* to 2 decimals, temp_C being the Celsius value carried in the same report
\* (fields in hundredths; temp_C x 1.8 + 32 in thousandths).
C5_ReportFromReportedCelsius ==
    (backendResp.status = 200 /\ backendResp.kind = "json") =>
        /\ NearestHalfAway(backendResp.json.temp_F, backendResp.json.temp_C * 18 + 32000, 10)
        /\ backendResp.json.temp_K = backendResp.json.temp_C + 27315

\* C5 amended: in every 200 response of the backend, temp_C, temp_F and temp_K
\* are c, c x 1.8 + 32 and c + 273.15 each rounded to 2 decimals (halves away
\* from zero), c being the reading the weather provider returned; they are
\* related through the reported temp_C when c has at most 2 decimals.
C5_ReportFromProviderReading ==
    (backendResp.status = 200 /\ backendResp.kind = "json") =>
        LET c == weatherOutcome.temp
            r == backendResp.json
        IN  /\ WeatherSucceeded
            /\ r.city = location
            /\ NearestHalfAway(r.temp_C, c, 10)
            /\ NearestHalfAway(r.temp_F, c * 18 + 320000, 100)
            /\ NearestHalfAway(r.temp_K, c + 273150, 10)
            /\ c % 10 = 0 =>
                /\ NearestHalfAway(r.temp_F, r.temp_C * 18 + 32000, 10)
                /\ r.temp_K = r.temp_C + 27315

C5_Witness ==
    /\ backendResp.status = 200
    /\ backendResp.kind = "json"
    /\ weatherOutcome.temp = -25
    /\ backendResp.json.temp_C = -3
    /\ backendResp.json.temp_F = 3196
    /\ backendResp.json.temp_K = 27313

\* C6: for every backend response whose status is not 404 the edge responds
\* with the backend's status and the backend's body decoded and re-encoded: a
\* 200 report reaches the caller with the same city, temp_C, temp_F and temp_K,
\* and a backend 500 reaches the caller as status 500 with diagnostic text.
C6_EdgeRelaysBackendResponse ==
    (entry = "edge" /\ edgeRecv.kind # "none" /\ edgeRecv.status # 404) =>
        /\ edgeRecv = backendResp
        /\ pcE = "done"
        /\ edgeResp.status = edgeRecv.status
        /\ edgeRecv.status = 200 =>
            /\ edgeResp.kind = "json"
            /\ edgeResp.json = edgeRecv.json
        /\ edgeRecv.status = 500 =>
            /\ edgeResp.kind = "text"
            /\ edgeResp.text # ""

\* C7: after SIGINT a process stops serving, drains and terminates: no
\* reachable state has a process blocked in a listener that ignores the
\* cancelled signal context.
C7_NoListenerIgnoresSigint ==
    \A p \in Procs : cancelled[p] => mpc[p] # "ListenAndServe"

\* C8: for a request that passes through edge and backend all spans share one
\* trace; the backend handler span is a child of the edge handler span, the
\* geocode span and the temperature span are children of the backend handler
\* span, and the edge span is a new root exactly when the caller supplied no
\* (parseable) trace context, else a child of the caller's span.
C8_TraceLinkage ==
    /\ spans["geo"].opened > 0 => spans["geo"].parent = spans["backend"].id
    /\ spans["temp"].opened > 0 => spans["temp"].parent = spans["backend"].id
    /\ \A c \in {"geo", "temp"} :
        spans[c].opened > 0 =>
            /\ spans["backend"].opened > 0
            /\ spans[c].trace = spans["backend"].trace
    /\ (entry = "edge" /\ pcE # "start") =>
        /\ spans["edge"].opened = 1
        /\ \A c \in Comps : spans[c].opened > 0 => spans[c].trace = spans["edge"].trace
        /\ spans["backend"].opened > 0 => spans["backend"].parent = spans["edge"].id
        /\ spans["edge"].parent = "none" <=> inHeader.kind # "valid"
        /\ inHeader.kind = "valid" =>
            /\ spans["edge"].trace = inHeader.trace
            /\ spans["edge"].parent = inHeader.span
        /\ inHeader.kind # "valid" => spans["edge"].trace # CallerHeader.trace
    /\ \A c, d \in Comps :
        (c # d /\ spans[c].opened > 0 /\ spans[d].opened > 0) => spans[c].id # spans[d].id

C8_Witness ==
    /\ entry = "edge"
    /\ pcE = "done"
    /\ inHeader.kind = "valid"
    /\ \A c \in Comps : spans[c].opened = 1 /\ spans[c].trace = "T-caller"
    /\ spans["temp"].parent = "S-backend"
    /\ spans["backend"].parent = "S-edge"

\* the handlers the request went through have returned
RequestFinished ==
    /\ entry = "edge" => pcE = "done"
    /\ pcB \in {"idle", "done"}

\* C9: on every exit path of the edge handler, the backend handler, the Geocode
\* Resolver and the Temperature Resolver each opened span is closed exactly
\* once: a span is never closed twice or before it is opened, a component that
\* has returned has closed its span, and when the request is finished the
\* number of opened spans equals the number of closed spans.
C9_SpanIntegrity ==
    /\ \A c \in Comps : spans[c].closed <= spans[c].opened /\ spans[c].opened <= 1
    /\ pcE = "done" => spans["edge"].opened = 1 /\ spans["edge"].closed = 1
    /\ pcB = "done" =>
        /\ spans["backend"].opened = 1
        /\ \A c \in {"backend", "geo", "temp"} : spans[c].closed = spans[c].opened
    /\ pcB = "weather" => spans["geo"].opened = 1 /\ spans["geo"].closed = 1
    /\ geoInvoked = spans["geo"].opened
    /\ tempInvoked = spans["temp"].opened
    /\ RequestFinished => \A c \in Comps : spans[c].closed = spans[c].opened

C9_Witness ==
    /\ RequestFinished
    /\ entry = "edge"
    /\ backendResp.status = 500
    /\ weatherOutcome.net = "err"
    /\ \A c \in Comps : spans[c].opened = 1 /\ spans[c].closed = 1

\* C10: within one backend request the Temperature Resolver is invoked at most
\* once and only after the Geocode Resolver has returned successfully; when
\* backend validation fails neither resolver is invoked; when the geocode
\* lookup fails the weather provider is never called; the two outbound calls
\* are never in flight at the same time.
C10_ResolverOrdering ==
    /\ geoInvoked <= 1 /\ tempInvoked <= 1
    /\ geoCalls <= geoInvoked /\ weatherCalls <= tempInvoked
    /\ tempInvoked > 0 =>
        /\ GeoSucceeded
        /\ geoInvoked = 1
        /\ "geo" \notin inflight
        /\ location = City
    /\ (pcB \in {"geo", "weather", "done"} /\ ByteLen(bCep) # BackendCepLength) =>
        /\ geoInvoked = 0 /\ tempInvoked = 0
        /\ geoCalls = 0 /\ weatherCalls = 0
        /\ backendResp.status = 422
    /\ (geoInvoked > 0 /\ pcB = "done" /\ ~GeoSucceeded) =>
        tempInvoked = 0 /\ weatherCalls = 0
    /\ ~({"geo", "weather"} \subseteq inflight)
    /\ "geo" \in inflight <=> pcB = "geo"
    /\ "weather" \in inflight <=> pcB = "weather"

C10_Witness ==
    /\ pcB = "weather"
    /\ GeoSucceeded
    /\ geoInvoked = 1 /\ geoCalls = 1
    /\ tempInvoked = 1 /\ weatherCalls = 1
    /\ inflight = {"backend", "weather"}

=============================================================================
